---------------------------- MODULE Spec2Model ----------------------------
(***************************************************************************)
(* A model of the archipelago client (src/src/client.rs) and of the parts  *)
(* of the message model (src/src/protocol.rs) its control flow depends on. *)
(*                                                                         *)
(* One task owns the connection.  It runs AnonymousClient::new, then any   *)
(* number of get_data_package calls, then connect, then consumes the       *)
(* Client stream.  The websocket is the environment: frames arrive one at  *)
(* a time, and a transport poll that finds nothing registers the task's    *)
(* waker and suspends the task until the next arrival.                     *)
(***************************************************************************)
EXTENDS Naturals, Sequences, FiniteSets, TLC

(***************************************************************************)
(* Bounds of the model.                                                    *)
(***************************************************************************)
\* Frames the websocket delivers in one run.
MaxFrames == 2
\* Elements of the JSON array of one text frame.
MaxElems == 2
\* Frames the task hands to the websocket sink in one run.
MaxSent == 2
\* Characters of an endpoint string.
MaxUrlLen == 4

\* ItemsHandlingFlags operands of |: the bits 0..MaxOperand and their
\* complements in a u8.
MaxOperand == 7

(***************************************************************************)
(* JSON values received from the server.  A value in a frame or in the     *)
(* message buffer is opaque to the client until from_value decodes it, and *)
(* each value is decoded once: the model names a value by its position in  *)
(* the inbound stream (1, 2, ...) and settles what it holds, one of        *)
(* Contents, at the call of from_value that decodes it.                    *)
(***************************************************************************)
Content(cmd, data) == [cmd |-> cmd, data |-> data]

\* Two room descriptions: the server's version, the games of the room.
RoomInfoA == Content("RoomInfo", <<"0.4.5", "Game A">>)

RoomInfoB == Content("RoomInfo", <<"0.5.0", "Game B">>)

ConnectedC == Content("Connected", <<"slot 1">>)

RefusedC == Content("ConnectionRefused", <<"InvalidSlot", "InvalidPassword">>)

DataPackageC == Content("DataPackage", <<"games">>)

InvalidPacketC == Content("InvalidPacket", <<"cmd">>)

PrintJSONC == Content("PrintJSON", <<"Chat">>)

\* A RoomUpdate that tells what has changed since RoomInfoA.
RoomUpdateC == Content("RoomUpdate", <<"0.5.0", "Game B">>)

\* An object whose tag no family knows.
BogusC == Content("Bogus", <<>>)

Contents ==
  {RoomInfoA, RoomInfoB, ConnectedC, RefusedC, DataPackageC, InvalidPacketC,
   PrintJSONC, RoomUpdateC, BogusC}

\* The fields of c that the struct of its variant keeps: RoomUpdate is a
\* struct without fields, the others keep theirs.
Fields(c) == IF c.cmd = "RoomUpdate" THEN <<>> ELSE c.data

\* A decoded message: the variant, its fields, and the value it came from.
Msg(v, c) == [cmd |-> c.cmd, data |-> Fields(c), seq |-> v]

NoMsg == [cmd |-> "", data |-> <<>>, seq |-> 0]

\* No JSON value.
NoValue == 0

(***************************************************************************)
(* What one poll of the websocket stream can return: tungstenite's Message *)
(* kinds, a transport error, the end of the stream.  A text frame either   *)
(* holds a JSON array (array = TRUE, its elements in elems) or some other  *)
(* text.                                                                   *)
(***************************************************************************)
Frame(kind, array, elems) == [kind |-> kind, array |-> array, elems |-> elems]

NoFrame == Frame("", FALSE, <<>>)

\* A text frame holding an array of n values, the first one being the
\* (first)-th value of the inbound stream.
TextFrame(first, n) == Frame("Text", TRUE, [i \in 1..n |-> first + i - 1])

MalformedText == Frame("Text", FALSE, <<>>)

ControlKinds == {"Ping", "Pong", "Close", "Binary", "Frame"}

TransportEnds == {Frame("Error", FALSE, <<>>), Frame("End", FALSE, <<>>)}

Frames(first) ==
  {TextFrame(first, n) : n \in 0..MaxElems} \cup {MalformedText}
    \cup {Frame(k, FALSE, <<>>) : k \in ControlKinds} \cup TransportEnds

(***************************************************************************)
(* The two families of server messages, by their serde tag.                *)
(***************************************************************************)
\* ServerMessage without its InvalidPacket variant.
ServerMessage_NoInvalidPacket ==
  {"ReceivedItems", "LocationInfo", "RoomUpdate", "PrintJSON", "Bounced",
   "Retrieved", "SetReply"}

ServerMessage ==
  {"ReceivedItems", "LocationInfo", "RoomUpdate", "PrintJSON", "Bounced",
   "Retrieved", "SetReply", "InvalidPacket"}

AnonymousServerMessage ==
  {"RoomInfo", "ConnectionRefused", "Connected", "DataPackage", "InvalidPacket"}

Tags(fam) == IF fam = "anon" THEN AnonymousServerMessage ELSE ServerMessage

(***************************************************************************)
(* Items of the message stream: Some(Ok(msg)), Some(Err(e)) for the three  *)
(* MessageStreamError variants, and None.                                  *)
(***************************************************************************)
Item(kind, msg, name) == [kind |-> kind, msg |-> msg, name |-> name]

NoItem == Item("", NoMsg, "")

ItemNone == Item("None", NoMsg, "")

\* serde_json::from_value::<T> of value v, which holds c: the tagged enum's
\* variant, or an error.
from_value(fam, v, c) ==
  IF c.cmd \in Tags(fam) THEN Item("Ok", Msg(v, c), "")
  ELSE Item("ParseError", NoMsg, "")

\* from_str reading a text that is no array as the empty array.
from_str_NoArrayIsEmpty(frame) == [ok |-> TRUE, vals |-> frame.elems]

\* serde_json::from_str::<VecDeque<Value>>: the array's elements, or an error.
from_str(frame) ==
  IF frame.array THEN [ok |-> TRUE, vals |-> frame.elems]
  ELSE [ok |-> FALSE, vals |-> <<>>]

(***************************************************************************)
(* MessageStream::poll_next.  The result of one call: ready is FALSE for   *)
(* Poll::Pending; item is what Poll::Ready carries; buf is message_buffer  *)
(* after the call; polled says whether self.inner was polled and frame     *)
(* what it returned; registered says whether that poll returned Pending    *)
(* itself, which is the only way the task's waker gets registered; src is  *)
(* the JSON value that was decoded, NoValue if none was.                   *)
(***************************************************************************)
Res(ready, item, buf, polled, frame, registered, src) ==
  [ready |-> ready, item |-> item, buf |-> buf, polled |-> polled,
   frame |-> frame, registered |-> registered, src |-> src]

\* BufferArm decoding what it pops as the AnonymousClient that stored it
\* would have: in the family of the handshake.
BufferArm_HandshakeFamily(fam, buf, c) ==
  Res(TRUE, from_value("anon", Head(buf), c), Tail(buf), FALSE, NoFrame, FALSE, Head(buf))

\* Leftover messages of an earlier frame are returned first.
BufferArm(fam, buf, c) ==
  Res(TRUE, from_value(fam, Head(buf), c), Tail(buf), FALSE, NoFrame, FALSE, Head(buf))

\* TextArm without line 298: the rest of the array is not stored.
TextArm_DropsRest(fam, buf, frame, c) ==
  LET parsed == from_str(frame) IN
  IF ~parsed.ok
    THEN Res(TRUE, Item("ParseError", NoMsg, ""), buf, TRUE, frame, FALSE, NoValue)
  ELSE IF parsed.vals = <<>>
    THEN Res(FALSE, NoItem, buf, TRUE, frame, FALSE, NoValue)
  ELSE Res(TRUE, from_value(fam, Head(parsed.vals), c), buf,
           TRUE, frame, FALSE, Head(parsed.vals))

\* TextArm reading the first element with front() instead of pop_front():
\* the element decoded now is stored with the rest.
TextArm_KeepsFirst(fam, buf, frame, c) ==
  LET parsed == from_str(frame) IN
  IF ~parsed.ok
    THEN Res(TRUE, Item("ParseError", NoMsg, ""), buf, TRUE, frame, FALSE, NoValue)
  ELSE IF parsed.vals = <<>>
    THEN Res(FALSE, NoItem, buf, TRUE, frame, FALSE, NoValue)
  ELSE Res(TRUE, from_value(fam, Head(parsed.vals), c), buf \o parsed.vals,
           TRUE, frame, FALSE, Head(parsed.vals))

\* TextArm decoding the first element, with ?, before line 298: when it does
\* not decode, the rest of the array is lost with it.
TextArm_DecodeBeforeAppend(fam, buf, frame, c) ==
  LET parsed == from_str(frame) IN
  IF ~parsed.ok
    THEN Res(TRUE, Item("ParseError", NoMsg, ""), buf, TRUE, frame, FALSE, NoValue)
  ELSE IF parsed.vals = <<>>
    THEN Res(FALSE, NoItem, buf, TRUE, frame, FALSE, NoValue)
  ELSE Res(TRUE, from_value(fam, Head(parsed.vals), c),
           IF from_value(fam, Head(parsed.vals), c).kind = "Ok"
             THEN buf \o Tail(parsed.vals) ELSE buf,
           TRUE, frame, FALSE, Head(parsed.vals))

\* Message::Text: the first element is decoded now, the rest is stored.
TextArm(fam, buf, frame, c) ==
  LET parsed == from_str(frame) IN
  IF ~parsed.ok
    THEN Res(TRUE, Item("ParseError", NoMsg, ""), buf, TRUE, frame, FALSE, NoValue)
  ELSE IF parsed.vals = <<>>
    THEN Res(FALSE, NoItem, buf, TRUE, frame, FALSE, NoValue)
  ELSE Res(TRUE, from_value(fam, Head(parsed.vals), c), buf \o Tail(parsed.vals),
           TRUE, frame, FALSE, Head(parsed.vals))

\* PingPongArm ending the stream as the Close arm does.
PingPongArm_Ends(buf, frame) == Res(TRUE, ItemNone, buf, TRUE, frame, FALSE, NoValue)

\* Message::Ping(_) | Message::Pong(_) => Poll::Pending
PingPongArm(buf, frame) == Res(FALSE, NoItem, buf, TRUE, frame, FALSE, NoValue)

\* Message::Close(_) => Poll::Ready(None)
CloseArm(buf, frame) == Res(TRUE, ItemNone, buf, TRUE, frame, FALSE, NoValue)

\* MessageTypeName with the names of the last two arms exchanged.
MessageTypeName_Swapped(frame) ==
  CASE frame.kind = "Text" -> "text"
    [] frame.kind = "Binary" -> "frame"
    [] frame.kind = "Ping" -> "ping"
    [] frame.kind = "Pong" -> "pong"
    [] frame.kind = "Close" -> "close"
    [] OTHER -> "binary"

\* The name the catch-all arm gives to the frame it got.
MessageTypeName(frame) ==
  CASE frame.kind = "Text" -> "text"
    [] frame.kind = "Binary" -> "binary"
    [] frame.kind = "Ping" -> "ping"
    [] frame.kind = "Pong" -> "pong"
    [] frame.kind = "Close" -> "close"
    [] OTHER -> "frame"

\* msg => Poll::Ready(Some(Err(UnexpectedMessageType(..))))
OtherArm(buf, frame) ==
  Res(TRUE, Item("UnexpectedMessageType", NoMsg, MessageTypeName(frame)), buf,
      TRUE, frame, FALSE, NoValue)

\* ErrorArm reporting the websocket's error as a ParseError.
ErrorArm_AsParseError(buf, frame) ==
  Res(TRUE, Item("ParseError", NoMsg, ""), buf, TRUE, frame, FALSE, NoValue)

\* Poll::Ready(Some(Err(inner))): the ? converts it into WebsocketError.
ErrorArm(buf, frame) ==
  Res(TRUE, Item("WebsocketError", NoMsg, ""), buf, TRUE, frame, FALSE, NoValue)

\* Poll::Ready(None) => Poll::Ready(None)
EndArm(buf, frame) == Res(TRUE, ItemNone, buf, TRUE, frame, FALSE, NoValue)

\* Poll::Pending => Poll::Pending: the websocket has kept the waker.
PendingArm(buf) == Res(FALSE, NoItem, buf, TRUE, NoFrame, TRUE, NoValue)

\* The match on what self.inner.poll_next_unpin returned.
InnerArm(fam, buf, frame, c) ==
  CASE frame = NoFrame -> PendingArm(buf)
    [] frame.kind = "Error" -> ErrorArm(buf, frame)
    [] frame.kind = "End" -> EndArm(buf, frame)
    [] frame.kind = "Text" -> TextArm(fam, buf, frame, c)
    [] frame.kind \in {"Ping", "Pong"} -> PingPongArm(buf, frame)
    [] frame.kind = "Close" -> CloseArm(buf, frame)
    [] OTHER -> OtherArm(buf, frame)

\* poll_next asking the websocket first, whatever message_buffer holds.
poll_next_WebsocketFirst(fam, buf, inb, c) == InnerArm(fam, buf, inb, c)

\* inb is the frame the websocket holds ready, NoFrame if it holds none; c is
\* what the value this call decodes, if it decodes one, holds.
poll_next(fam, buf, inb, c) ==
  IF buf # <<>> THEN BufferArm(fam, buf, c) ELSE InnerArm(fam, buf, inb, c)

(***************************************************************************)
(* What an operation of a session returns to its caller: Ok(msg) or an     *)
(* anyhow error, given by its text and by what the text is formatted from. *)
(***************************************************************************)
Ret(op, ok, msg, err, detail) ==
  [op |-> op, ok |-> ok, msg |-> msg, err |-> err, detail |-> detail]

NoRet == Ret("", FALSE, NoMsg, "", <<>>)

\* A MessageStreamError turned into the caller's error (e.into(), ?).
StreamErr(op, item) == Ret(op, FALSE, NoMsg, item.kind, <<item.name>>)

\* {:?} of a message: its variant and its fields.
Debug(msg) == <<msg.cmd>> \o msg.data

\* NewReply without the Some(Ok(_)) arm: any message is taken as the room's.
NewReply_AnyMessage(item) ==
  CASE item.kind = "Ok" -> Ret("new", TRUE, item.msg, "", <<>>)
    [] item.kind = "None" ->
         Ret("new", FALSE, NoMsg, "stream unexpectedly ended", <<>>)
    [] OTHER -> StreamErr("new", item)

\* NewReply turning away a room whose version is not SUPPORTED_VERSION.
NewReply_ChecksVersion(item) ==
  CASE item.kind = "Ok" /\ item.msg.cmd = "RoomInfo" /\ item.msg.data[1] = "0.4.5" ->
         Ret("new", TRUE, item.msg, "", <<>>)
    [] item.kind = "Ok" /\ item.msg.cmd = "RoomInfo" /\ item.msg.data[1] # "0.4.5" ->
         Ret("new", FALSE, NoMsg, "unsupported version", <<>>)
    [] item.kind = "Ok" /\ item.msg.cmd # "RoomInfo" ->
         Ret("new", FALSE, NoMsg, "expected RoomInfo message", <<>>)
    [] item.kind = "None" ->
         Ret("new", FALSE, NoMsg, "stream unexpectedly ended", <<>>)
    [] OTHER -> StreamErr("new", item)

\* AnonymousClient::new, the match on the first item of the stream.
NewReply(item) ==
  CASE item.kind = "Ok" /\ item.msg.cmd = "RoomInfo" ->
         Ret("new", TRUE, item.msg, "", <<>>)
    [] item.kind = "Ok" /\ item.msg.cmd # "RoomInfo" ->
         Ret("new", FALSE, NoMsg, "expected RoomInfo message", <<>>)
    [] item.kind = "None" ->
         Ret("new", FALSE, NoMsg, "stream unexpectedly ended", <<>>)
    [] OTHER -> StreamErr("new", item)

\* GetDataPackageReply without the ok_or_else: the end of the stream is
\* passed on as the end of a sequence, not as a failure.
GetDataPackageReply_EndIsClean(item) ==
  CASE item.kind = "None" -> Ret("get_data_package", FALSE, NoMsg, "None", <<>>)
    [] item.kind = "Ok" /\ item.msg.cmd = "DataPackage" ->
         Ret("get_data_package", TRUE, item.msg, "", <<>>)
    [] item.kind = "Ok" /\ item.msg.cmd # "DataPackage" ->
         Ret("get_data_package", FALSE, NoMsg, "expected DataPackage message", <<>>)
    [] OTHER -> StreamErr("get_data_package", item)

\* AnonymousClient::get_data_package, the match on the reply.
GetDataPackageReply(item) ==
  CASE item.kind = "None" ->
         Ret("get_data_package", FALSE, NoMsg, "stream unexpectedly ended", <<>>)
    [] item.kind = "Ok" /\ item.msg.cmd = "DataPackage" ->
         Ret("get_data_package", TRUE, item.msg, "", <<>>)
    [] item.kind = "Ok" /\ item.msg.cmd # "DataPackage" ->
         Ret("get_data_package", FALSE, NoMsg, "expected DataPackage message", <<>>)
    [] OTHER -> StreamErr("get_data_package", item)

\* ConnectReply without the ConnectionRefused arm's {:?} argument.
ConnectReply_NoReasons(item) ==
  CASE item.kind = "None" ->
         Ret("connect", FALSE, NoMsg, "stream unexpectedly ended", <<>>)
    [] item.kind = "Ok" /\ item.msg.cmd = "Connected" ->
         Ret("connect", TRUE, item.msg, "", <<>>)
    [] item.kind = "Ok" /\ item.msg.cmd = "InvalidPacket" ->
         Ret("connect", FALSE, NoMsg,
             "expected Connected message, got InvalidPacket", item.msg.data)
    [] item.kind = "Ok" /\ item.msg.cmd = "ConnectionRefused" ->
         Ret("connect", FALSE, NoMsg,
             "expected Connected message, got ConnectionRefused", <<>>)
    [] item.kind = "Ok" ->
         Ret("connect", FALSE, NoMsg, "expected Connected message, got",
             Debug(item.msg))
    [] OTHER -> StreamErr("connect", item)

\* ConnectReply whose last arm does not format the message it got.
ConnectReply_DropsReply(item) ==
  CASE item.kind = "None" ->
         Ret("connect", FALSE, NoMsg, "stream unexpectedly ended", <<>>)
    [] item.kind = "Ok" /\ item.msg.cmd = "Connected" ->
         Ret("connect", TRUE, item.msg, "", <<>>)
    [] item.kind = "Ok" /\ item.msg.cmd = "InvalidPacket" ->
         Ret("connect", FALSE, NoMsg,
             "expected Connected message, got InvalidPacket", item.msg.data)
    [] item.kind = "Ok" /\ item.msg.cmd = "ConnectionRefused" ->
         Ret("connect", FALSE, NoMsg,
             "expected Connected message, got ConnectionRefused", item.msg.data)
    [] item.kind = "Ok" ->
         Ret("connect", FALSE, NoMsg, "expected Connected message", <<>>)
    [] OTHER -> StreamErr("connect", item)

\* AnonymousClient::connect, the match on the reply.
ConnectReply(item) ==
  CASE item.kind = "None" ->
         Ret("connect", FALSE, NoMsg, "stream unexpectedly ended", <<>>)
    [] item.kind = "Ok" /\ item.msg.cmd = "Connected" ->
         Ret("connect", TRUE, item.msg, "", <<>>)
    [] item.kind = "Ok" /\ item.msg.cmd = "InvalidPacket" ->
         Ret("connect", FALSE, NoMsg,
             "expected Connected message, got InvalidPacket", item.msg.data)
    [] item.kind = "Ok" /\ item.msg.cmd = "ConnectionRefused" ->
         Ret("connect", FALSE, NoMsg,
             "expected Connected message, got ConnectionRefused", item.msg.data)
    [] item.kind = "Ok" ->
         Ret("connect", FALSE, NoMsg, "expected Connected message, got",
             Debug(item.msg))
    [] OTHER -> StreamErr("connect", item)

\* ClientNew giving the Client's reader a new, empty buffer.
ClientNew_FreshBuffer(buf, ri, conn) ==
  [message_buffer |-> <<>>, room_info |-> ri, connected |-> conn]

\* ClientNew with the two snapshots in each other's place.
ClientNew_SwapsSnapshots(buf, ri, conn) ==
  [message_buffer |-> buf, room_info |-> conn, connected |-> ri]

\* The Client connect returns: MessageStream::into_inner hands over the
\* websocket and the message buffer, MessageStream::new takes them.
ClientNew(buf, ri, conn) ==
  [message_buffer |-> buf, room_info |-> ri, connected |-> conn]

\* ConnectEnd for a connect(&mut self, ..): a failure leaves the session.
ConnectEnd_KeepsSession(ok) == IF ok THEN "client" ELSE "anon"

\* connect(mut self, ..) owns the AnonymousClient: it ends with the Client,
\* or with the session dropped.
ConnectEnd(ok) == IF ok THEN "client" ELSE "consumed"

(***************************************************************************)
(* Client -> server messages, and the frame MessageSink::start_send makes  *)
(* of one: the JSON text of a one-element array.                           *)
(***************************************************************************)
SUPPORTED_VERSION == [major |-> 0, minor |-> 4, build |-> 5]

\* The arguments a caller passes to connect (the uuid, fresh on every call,
\* is left out).
ConnectArgs ==
  {[password |-> "None", game |-> "Game A", name |-> "Player",
    tags |-> <<"AP", "TextClient">>, items_handling |-> 7],
   [password |-> "Some(pw)", game |-> "", name |-> "Other",
    tags |-> <<>>, items_handling |-> 0]}

GetDataPackageMsg(ri) == [cmd |-> "GetDataPackage", games |-> <<ri.data[2]>>]

\* The Connect request with slot_data left to the caller: off for one that
\* takes no items.
ConnectMsg_SlotDataIfItems(args) ==
  [cmd |-> "Connect", password |-> args.password, game |-> args.game,
   name |-> args.name, version |-> SUPPORTED_VERSION,
   items_handling |-> args.items_handling, tags |-> args.tags,
   slot_data |-> (args.items_handling # 0)]

ConnectMsg(args) ==
  [cmd |-> "Connect", password |-> args.password, game |-> args.game,
   name |-> args.name, version |-> SUPPORTED_VERSION,
   items_handling |-> args.items_handling, tags |-> args.tags,
   slot_data |-> TRUE]

\* start_send writing the message itself, not an array that holds it.
start_send_BareMessage(item) == Frame("Text", FALSE, <<item>>)

start_send(item) == Frame("Text", TRUE, <<item>>)

\* How a send (poll_ready, start_send, flush) can end: done, failed before
\* the frame was handed to the websocket, failed flushing it.
SendOutcomes == {"ok", "ready_err", "flush_err"}

(***************************************************************************)
(* AnonymousClient::new, the endpoint.  A string is the sequence of its    *)
(* characters.                                                             *)
(***************************************************************************)
\* The characters of the endpoints tried: a letter, a digit, the colon.
UrlChars == {"h", "1", ":"}

\* The strings of at most n characters.
Strings(n) == UNION {[1..k -> UrlChars] : k \in 0..n}

\* The places of the colons of url.
Colons(url) == {i \in 1..Len(url) : url[i] = ":"}

\* url cut in two at its i-th character, which is left out.
SplitAt(url, i) == [head |-> SubSeq(url, 1, i - 1), tail |-> SubSeq(url, i + 1, Len(url))]

\* str::split_once: the cut at the first colon.
split_once(url) ==
  IF Colons(url) = {} THEN [some |-> FALSE, head |-> <<>>, tail |-> <<>>]
  ELSE [some |-> TRUE] @@ SplitAt(url, CHOOSE i \in Colons(url) : \A j \in Colons(url) : i <= j)

\* str::rsplit_once: the cut at the last colon.
rsplit_once(url) ==
  IF Colons(url) = {} THEN [some |-> FALSE, head |-> <<>>, tail |-> <<>>]
  ELSE [some |-> TRUE] @@ SplitAt(url, CHOOSE i \in Colons(url) : \A j \in Colons(url) : j <= i)

\* "38281"
DefaultPort == <<"3", "8", "2", "8", "1">>

\* format!("ws://{}:{}", host, port)
WsUrl(host, port) == <<"w", "s", ":", "/", "/">> \o host \o <<":">> \o port

\* The host, the port and the address new connects to.
Endpoint(url) ==
  LET cut == rsplit_once(url)
      host == IF cut.some THEN cut.head ELSE url
      port == IF cut.some THEN cut.tail ELSE DefaultPort
  IN [host |-> host, port |-> port, target |-> WsUrl(host, port)]

(***************************************************************************)
(* ItemsHandlingFlags(u8) and its accessors.                               *)
(***************************************************************************)
\* The largest u8.
U8Max == 255

\* self.0 & (1 << k) != 0
BitSet(bits, k) == (bits \div (2 ^ k)) % 2 = 1

can_receive_items(bits) == BitSet(bits, 0)

\* has_local_items reading its own bit only.
has_local_items_OwnBitOnly(bits) == BitSet(bits, 1)

has_local_items(bits) == can_receive_items(bits) /\ BitSet(bits, 1)

receive_starting_inventory(bits) == can_receive_items(bits) /\ BitSet(bits, 2)

CAN_RECEIVE_ITEMS == 1

HAS_LOCAL_ITEMS == 2

REQUEST_STARTING_INVENTORY == 4

\* The bits of a u8.
U8Bits == 8

\* a | b from bit k up.
RECURSIVE BitOrFrom(_, _, _)
BitOrFrom(a, b, k) ==
  IF k >= U8Bits THEN 0
  ELSE (IF BitSet(a, k) \/ BitSet(b, k) THEN 2 ^ k ELSE 0) + BitOrFrom(a, b, k + 1)

\* bitor adding the bits, as a u8 does when it wraps.
bitor_WrappingAdd(a, b) == (a + b) % (U8Max + 1)

\* BitOr::bitor: Self(self.0 | rhs.0)
bitor(a, b) == BitOrFrom(a, b, 0)

\* The flags examples/basic.rs passes to connect.
BasicFlags == bitor(bitor(CAN_RECEIVE_ITEMS, HAS_LOCAL_ITEMS), REQUEST_STARTING_INVENTORY)

(***************************************************************************)
(* Serialize and Deserialize of the message model, as serde derives them   *)
(* from the attributes of the types (and as NetworkVersion writes its      *)
(* own).  A value is a record with its type in ty; the JSON of a value is  *)
(* a record of the object's fields.                                        *)
(***************************************************************************)
\* The result of Serialize or Deserialize: Ok(out), or an error.
Ok(out) == [ok |-> TRUE, out |-> out]

Failed == [ok |-> FALSE, out |-> <<>>]

\* serde_json::Value, the operand of a DataStorageOperation: null, a number,
\* or an object given by its entries.
JNull == [t |-> "null", n |-> 0, entries |-> {}]

JNumber(n) == [t |-> "number", n |-> n, entries |-> {}]

JObject(entries) == [t |-> "object", n |-> 0, entries |-> entries]

Values == {JNull, JNumber(12), JObject({}), JObject({<<"value", 12>>})}

\* NetworkVersion.
NetworkVersions == [ty : {"NetworkVersion"}, major : {0, 1}, minor : {4}, build : {0, 5}]

\* impl Serialize for NetworkVersion: a map of four entries.
SerializeVersion(v) ==
  Ok([major |-> v.major, minor |-> v.minor, build |-> v.build, class |-> "Version"])

\* derive(Deserialize): the three fields are read, the others are skipped.
DeserializeVersion(w) ==
  Ok([ty |-> "NetworkVersion", major |-> w.major, minor |-> w.minor, build |-> w.build])

\* ItemsHandlingFlags(u8), a newtype struct: the JSON is the number.
SerializeFlags(f) == Ok(f.bits)

DeserializeFlags(w) ==
  IF w \in 0..U8Max THEN Ok([ty |-> "ItemsHandlingFlags", bits |-> w]) ELSE Failed

\* DataStorageOperation, some of its variants: a newtype variant holds a
\* serde_json::Value, a unit variant nothing (value is JNull then).
NewtypeVariants == {"replace", "add"}

UnitVariants == {"default", "floor"}

DataStorageOperations ==
  [ty : {"DataStorageOperation"}, variant : NewtypeVariants, value : Values]
    \cup [ty : {"DataStorageOperation"}, variant : UnitVariants, value : {JNull}]

\* serde(tag = "operation"), Serialize.  The serializer of an internally
\* tagged newtype variant writes the tag into the map its content
\* serializes as; a content that is a unit gives the map of the tag alone,
\* and a content that is neither (a number, a string, an array) is an error
\* ("cannot serialize tagged newtype variant ... containing an integer").
SerializeOperation(m) ==
  IF m.variant \in UnitVariants \/ m.value.t = "null"
    THEN Ok([operation |-> m.variant, entries |-> {}])
  ELSE IF m.value.t = "object"
    THEN Ok([operation |-> m.variant, entries |-> m.value.entries])
  ELSE Failed

\* serde(tag = "operation"), Deserialize: the variant is chosen by the tag,
\* and a newtype variant's content is read from the entries that are left,
\* which a serde_json::Value reads as an object.
DeserializeOperation(w) ==
  IF w.operation \in UnitVariants
    THEN Ok([ty |-> "DataStorageOperation", variant |-> w.operation, value |-> JNull])
  ELSE IF w.operation \in NewtypeVariants
    THEN Ok([ty |-> "DataStorageOperation", variant |-> w.operation,
             value |-> JObject(w.entries)])
  ELSE Failed

\* ClientMessage::Connect, with the version and the flags it holds.
Connects ==
  {[ty |-> "Connect", game |-> "Game A", name |-> "Player",
    version |-> v, items_handling |-> [ty |-> "ItemsHandlingFlags", bits |-> b]] :
     v \in NetworkVersions, b \in {0, 5, U8Max}}

\* serde(tag = "cmd") on a newtype variant that holds a struct.
SerializeConnect(m) ==
  Ok([cmd |-> "Connect", game |-> m.game, name |-> m.name,
      version |-> SerializeVersion(m.version).out,
      items_handling |-> SerializeFlags(m.items_handling).out])

DeserializeConnect(w) ==
  IF w.cmd = "Connect" /\ DeserializeFlags(w.items_handling).ok
    THEN Ok([ty |-> "Connect", game |-> w.game, name |-> w.name,
             version |-> DeserializeVersion(w.version).out,
             items_handling |-> DeserializeFlags(w.items_handling).out])
  ELSE Failed

\* serde_json::to_value of a value of the message model.
Serialize(m) ==
  CASE m.ty = "NetworkVersion" -> SerializeVersion(m)
    [] m.ty = "ItemsHandlingFlags" -> SerializeFlags(m)
    [] m.ty = "DataStorageOperation" -> SerializeOperation(m)
    [] m.ty = "Connect" -> SerializeConnect(m)

\* serde_json::from_value::<ty>.
Deserialize(ty, w) ==
  CASE ty = "NetworkVersion" -> DeserializeVersion(w)
    [] ty = "ItemsHandlingFlags" -> DeserializeFlags(w)
    [] ty = "DataStorageOperation" -> DeserializeOperation(w)
    [] ty = "Connect" -> DeserializeConnect(w)

\* A value serialized, and the JSON read back.
ThereAndBack(m) ==
  LET w == Serialize(m) IN
  [wire |-> w, back |-> IF w.ok THEN Deserialize(m.ty, w.out) ELSE Failed]

(***************************************************************************)
(* The state.                                                              *)
(***************************************************************************)
VARIABLES
  pc,              \* where the task is (see PcValues)
  task,            \* "runnable", or "suspended" after a Poll::Pending
  waker,           \* the websocket holds the task's waker
  inbox,           \* the frame the websocket holds ready, or NoFrame
  nframes,         \* frames arrived so far
  nvalues,         \* JSON values arrived in text frames so far
  peerClosed,      \* a Close frame or the end of the stream has arrived
  message_buffer,  \* MessageStream::message_buffer of the current session
  room_info,       \* AnonymousClient::room_info, then Client::room_info
  connected,       \* Client::connected
  sent,            \* frames handed to the websocket sink, in order
  flushed,         \* how many of them a flush has written
  ret,             \* what the last finished operation returned
  \* History variables: they record what happened and steer nothing.
  last,            \* the last call of poll_next: family, content decoded,
                   \* message_buffer before the call, result
  received,        \* the values of the text frames read so far, in order
  yielded,         \* the values whose decoding has been yielded, in order
  first_item,      \* the first item the stream produced
  new_ret,         \* what AnonymousClient::new returned
  auth_reply,      \* the item connect consumed as its reply
  connect_calls,   \* how many times connect has been called
  frame_log,       \* the last non-empty text frame read and the calls since
  auth_log,        \* the buffer handed to the Client and its first calls
  after_close,     \* what has happened since a Close frame was consumed
  submitted,       \* the messages handed to start_send, in order
  \* A function of the message model applied on its own.
  call,            \* the function and its argument, NoCall if none
  result           \* what it returned, NoResult before it has

vars ==
  <<pc, task, waker, inbox, nframes, nvalues, peerClosed, message_buffer,
    room_info, connected, sent, flushed, ret, last, received, yielded,
    first_item, new_ret, auth_reply, connect_calls, frame_log, auth_log,
    after_close, submitted, call, result>>

\* The variables of a function applied on its own.
pure == <<call, result>>

history ==
  <<last, received, yielded, first_item, new_ret, auth_reply, connect_calls,
    frame_log, auth_log, after_close, submitted>>

\* "new_recv": AnonymousClient::new awaits the first item.
\* "anon": an AnonymousClient exists and no operation runs on it.
\* "gdp_recv": get_data_package awaits its reply.
\* "auth_recv": connect has sent and flushed its request and awaits the reply.
\* "client": a Client exists and is not being polled; "next_recv": its
\* next() is pending.
\* "failed": new returned an error.  "consumed": connect returned an error.
\* "dropped": the caller dropped the session or the pending future.
PcValues ==
  {"new_recv", "anon", "gdp_recv", "auth_recv", "client", "next_recv",
   "failed", "consumed", "dropped"}

\* An operation is awaiting an item of the stream.
Receiving == pc \in {"new_recv", "gdp_recv", "auth_recv", "next_recv"}

\* No session and no pending operation is left: the websocket is gone.
Released == pc \in {"failed", "consumed", "dropped"}

NoContent == Content("", <<>>)

NoRes == Res(FALSE, NoItem, <<>>, FALSE, NoFrame, FALSE, NoValue)

NoLast == [fam |-> "", c |-> NoContent, before |-> <<>>, r |-> NoRes]

NoCall == [fn |-> "", arg |-> <<>>]

NoResult == [fn |-> ""]

\* The client at the start of AnonymousClient::new: the websocket has just
\* been connected and split, nothing has been read or sent.
ClientInit ==
  /\ pc = "new_recv"
  /\ task = "runnable"
  /\ waker = FALSE
  /\ inbox = NoFrame
  /\ nframes = 0
  /\ nvalues = 0
  /\ peerClosed = FALSE
  /\ message_buffer = <<>>
  /\ room_info = NoMsg
  /\ connected = NoMsg
  /\ sent = <<>>
  /\ flushed = 0
  /\ ret = NoRet
  /\ last = NoLast
  /\ received = <<>>
  /\ yielded = <<>>
  /\ first_item = NoItem
  /\ new_ret = NoRet
  /\ auth_reply = NoItem
  /\ connect_calls = 0
  /\ frame_log = [elems |-> <<>>, outs |-> <<>>, repolled |-> FALSE]
  /\ auth_log = [buffered |-> <<>>, outs |-> <<>>]
  /\ after_close = ""
  /\ submitted = <<>>

Init == ClientInit /\ call = NoCall /\ result = NoResult

\* The values a call of poll_next took off the websocket.
NewElems(r) == IF r.frame.kind = "Text" /\ r.frame.array THEN r.frame.elems ELSE <<>>

\* What a call yielded, as the histories note it: the value decoded (NoValue
\* if the call yielded no decoded value) and the kind of the item.
Out(r) == [src |-> IF r.ready THEN r.src ELSE NoValue, kind |-> r.item.kind,
           polled |-> r.polled]

\* The record of one call r of poll_next in the histories of the stream.
Record(fam, c, r) ==
  /\ last' = [fam |-> fam, c |-> IF r.src = NoValue THEN NoContent ELSE c,
              before |-> message_buffer, r |-> r]
  /\ received' = received \o NewElems(r)
  /\ yielded' = IF r.ready /\ r.src # NoValue THEN Append(yielded, r.src) ELSE yielded
  /\ first_item' = IF first_item = NoItem /\ r.ready THEN r.item ELSE first_item
  /\ frame_log' =
       IF NewElems(r) # <<>>
         THEN [elems |-> NewElems(r), outs |-> <<Out(r)>>, repolled |-> FALSE]
       ELSE IF Len(frame_log.outs) < Len(frame_log.elems)
         THEN [frame_log EXCEPT !.outs = Append(@, Out(r)), !.repolled = @ \/ r.polled]
       ELSE frame_log
  /\ after_close' =
       IF r.frame.kind = "Close" /\ after_close = "" THEN "exhausted"
       ELSE IF after_close = "" THEN ""
       ELSE IF r.ready /\ r.item.kind # "None" THEN "yielded"
       ELSE IF r.polled /\ after_close = "exhausted" THEN "polled"
       ELSE after_close

\* The effect of one call r of poll_next on the websocket and on the task.
Produce(fam, c, r) ==
  /\ inbox' = IF r.polled THEN NoFrame ELSE inbox
  /\ waker' = (waker \/ r.registered)
  /\ task' = IF r.ready THEN "runnable" ELSE "suspended"
  /\ Record(fam, c, r)

\* The websocket receives a frame; it wakes the task whose waker it holds.
\* A frame that arrives while no session reads is one that arrives just
\* before the next read starts: only the latter is a step of the model.
\* After a Close frame the peer sends no more frames.
Arrive(f) ==
  /\ Receiving \/ pc = "client"
  /\ UNCHANGED pure
  /\ inbox = NoFrame
  /\ nframes < MaxFrames
  /\ peerClosed => f \in TransportEnds
  /\ inbox' = f
  /\ nframes' = nframes + 1
  /\ nvalues' = nvalues + Len(f.elems)
  /\ peerClosed' = (peerClosed \/ f.kind \in {"Close", "End"})
  /\ IF waker THEN task' = "runnable" /\ waker' = FALSE
     ELSE UNCHANGED <<task, waker>>
  /\ UNCHANGED <<pc, message_buffer, room_info, connected, sent, flushed, ret>>
  /\ UNCHANGED history

\* AnonymousClient::new: one poll of ws_reader.next(), and what follows it.
NewRecv(c) ==
  /\ pc = "new_recv"
  /\ UNCHANGED pure
  /\ task = "runnable"
  /\ LET r == poll_next("anon", message_buffer, inbox, c)
         o == NewReply(r.item)
     IN /\ Produce("anon", c, r)
        /\ message_buffer' = r.buf
        /\ IF ~r.ready THEN UNCHANGED <<pc, room_info, ret, new_ret>>
           ELSE /\ pc' = IF o.ok THEN "anon" ELSE "failed"
                /\ room_info' = o.msg
                /\ ret' = o
                /\ new_ret' = o
  /\ UNCHANGED <<nframes, nvalues, peerClosed, connected, sent, flushed,
                 auth_reply, connect_calls, auth_log, submitted>>

\* get_data_package: the send of the request.  The message is handed to
\* start_send once the sink is ready for it.
GetDataPackageSend(outcome) ==
  /\ pc = "anon"
  /\ UNCHANGED pure
  /\ task = "runnable"
  /\ Len(sent) < MaxSent
  /\ sent' = IF outcome = "ready_err" THEN sent
             ELSE Append(sent, start_send(GetDataPackageMsg(room_info)))
  /\ submitted' = IF outcome = "ready_err" THEN submitted
                  ELSE Append(submitted, GetDataPackageMsg(room_info))
  /\ flushed' = IF outcome = "ok" THEN Len(sent') ELSE flushed
  /\ IF outcome = "ok" THEN pc' = "gdp_recv" /\ ret' = ret
     ELSE /\ pc' = "anon"
          /\ ret' = Ret("get_data_package", FALSE, NoMsg, "send failed", <<>>)
  /\ UNCHANGED <<task, waker, inbox, nframes, nvalues, peerClosed,
                 message_buffer, room_info, connected, last, received, yielded,
                 first_item, new_ret, auth_reply, connect_calls, frame_log,
                 auth_log, after_close>>

\* get_data_package taking self by value: an error gives the session up.
GetDataPackageRecv_ErrorEndsSession(c) ==
  /\ pc = "gdp_recv"
  /\ UNCHANGED pure
  /\ task = "runnable"
  /\ LET r == poll_next("anon", message_buffer, inbox, c) IN
     /\ Produce("anon", c, r)
     /\ message_buffer' = r.buf
     /\ IF ~r.ready THEN UNCHANGED <<pc, ret>>
        ELSE /\ ret' = GetDataPackageReply(r.item)
             /\ pc' = IF ret'.ok THEN "anon" ELSE "consumed"
  /\ UNCHANGED <<nframes, nvalues, peerClosed, room_info, connected, sent,
                 flushed, new_ret, auth_reply, connect_calls, auth_log,
                 submitted>>

\* get_data_package: one poll of ws_reader.next(), and what follows it.
GetDataPackageRecv(c) ==
  /\ pc = "gdp_recv"
  /\ UNCHANGED pure
  /\ task = "runnable"
  /\ LET r == poll_next("anon", message_buffer, inbox, c) IN
     /\ Produce("anon", c, r)
     /\ message_buffer' = r.buf
     /\ IF ~r.ready THEN UNCHANGED <<pc, ret>>
        ELSE pc' = "anon" /\ ret' = GetDataPackageReply(r.item)
  /\ UNCHANGED <<nframes, nvalues, peerClosed, room_info, connected, sent,
                 flushed, new_ret, auth_reply, connect_calls, auth_log,
                 submitted>>

\* connect going on to read the reply although ? met an error at 103 or 105.
ConnectSend_ReadsAfterFailure(args, outcome) ==
  /\ pc = "anon"
  /\ UNCHANGED pure
  /\ task = "runnable"
  /\ Len(sent) < MaxSent
  /\ connect_calls' = connect_calls + 1
  /\ sent' = IF outcome = "ready_err" THEN sent
             ELSE Append(sent, start_send(ConnectMsg(args)))
  /\ submitted' = IF outcome = "ready_err" THEN submitted
                  ELSE Append(submitted, ConnectMsg(args))
  /\ flushed' = IF outcome = "ok" THEN Len(sent') ELSE flushed
  /\ pc' = "auth_recv"
  /\ ret' = ret
  /\ UNCHANGED <<task, waker, inbox, nframes, nvalues, peerClosed,
                 message_buffer, room_info, connected, last, received, yielded,
                 first_item, new_ret, auth_reply, frame_log, auth_log,
                 after_close>>

\* connect: the send of the Connect request and the flush after it.
ConnectSend(args, outcome) ==
  /\ pc = "anon"
  /\ UNCHANGED pure
  /\ task = "runnable"
  /\ Len(sent) < MaxSent
  /\ connect_calls' = connect_calls + 1
  /\ sent' = IF outcome = "ready_err" THEN sent
             ELSE Append(sent, start_send(ConnectMsg(args)))
  /\ submitted' = IF outcome = "ready_err" THEN submitted
                  ELSE Append(submitted, ConnectMsg(args))
  /\ flushed' = IF outcome = "ok" THEN Len(sent') ELSE flushed
  /\ IF outcome = "ok" THEN pc' = "auth_recv" /\ ret' = ret
     ELSE /\ pc' = ConnectEnd(FALSE)
          /\ ret' = Ret("connect", FALSE, NoMsg, "send failed", <<>>)
  /\ UNCHANGED <<task, waker, inbox, nframes, nvalues, peerClosed,
                 message_buffer, room_info, connected, last, received, yielded,
                 first_item, new_ret, auth_reply, frame_log, auth_log,
                 after_close>>

\* connect: one poll of ws_reader.next(), and what follows it: an error, or
\* the Client built from the parts of the AnonymousClient.
ConnectRecv(c) ==
  /\ pc = "auth_recv"
  /\ UNCHANGED pure
  /\ task = "runnable"
  /\ LET r == poll_next("anon", message_buffer, inbox, c)
         o == ConnectReply(r.item)
         client == ClientNew(r.buf, room_info, o.msg)
     IN /\ Produce("anon", c, r)
        /\ IF ~r.ready
             THEN /\ message_buffer' = r.buf
                  /\ UNCHANGED <<pc, room_info, connected, ret, auth_reply, auth_log>>
           ELSE /\ pc' = ConnectEnd(o.ok)
                /\ ret' = o
                /\ auth_reply' = r.item
                /\ IF o.ok
                     THEN /\ message_buffer' = client.message_buffer
                          /\ room_info' = client.room_info
                          /\ connected' = client.connected
                          /\ auth_log' = [buffered |-> r.buf, outs |-> <<>>]
                   ELSE /\ message_buffer' = r.buf
                        /\ UNCHANGED <<room_info, connected, auth_log>>
  /\ UNCHANGED <<nframes, nvalues, peerClosed, sent, flushed, new_ret,
                 connect_calls, submitted>>

\* Client::poll_next, called by the consumer's next().
ClientNext(c) ==
  /\ pc \in {"client", "next_recv"}
  /\ UNCHANGED pure
  /\ task = "runnable"
  /\ LET r == poll_next("full", message_buffer, inbox, c) IN
     /\ Produce("full", c, r)
     /\ message_buffer' = r.buf
     /\ auth_log' = IF Len(auth_log.outs) < Len(auth_log.buffered)
                      THEN [auth_log EXCEPT !.outs = Append(@, Out(r))]
                    ELSE auth_log
     /\ IF ~r.ready THEN pc' = "next_recv" /\ ret' = ret
        ELSE /\ pc' = "client"
             /\ ret' = Ret("next", r.item.kind = "Ok", r.item.msg,
                           IF r.item.kind = "Ok" THEN "" ELSE r.item.kind,
                           <<r.item.name>>)
  /\ UNCHANGED <<nframes, nvalues, peerClosed, room_info, connected, sent,
                 flushed, new_ret, auth_reply, connect_calls, submitted>>

\* Drop giving up a pending get_data_package or next only: the session the
\* call borrowed lives on with its connection.
Drop_PendingCallOnly ==
  /\ \/ pc \in {"anon", "client"}
     \/ Receiving /\ task = "suspended"
  /\ UNCHANGED pure
  /\ pc' = CASE pc = "gdp_recv" -> "anon"
              [] pc = "next_recv" -> "client"
              [] OTHER -> "dropped"
  /\ task' = "runnable"
  /\ UNCHANGED <<waker, inbox, nframes, nvalues, peerClosed,
                 message_buffer, room_info, connected, sent, flushed, ret>>
  /\ UNCHANGED history

\* The caller drops a session it holds, or a future that is pending.
Drop ==
  /\ \/ pc \in {"anon", "client"}
     \/ Receiving /\ task = "suspended"
  /\ UNCHANGED pure
  /\ pc' = "dropped"
  /\ UNCHANGED <<task, waker, inbox, nframes, nvalues, peerClosed,
                 message_buffer, room_info, connected, sent, flushed, ret>>
  /\ UNCHANGED history

Next ==
  \/ \E f \in Frames(nvalues + 1) : Arrive(f)
  \/ \E c \in Contents : NewRecv(c)
  \/ \E outcome \in SendOutcomes : GetDataPackageSend(outcome)
  \/ \E c \in Contents : GetDataPackageRecv(c)
  \/ \E args \in ConnectArgs, outcome \in SendOutcomes : ConnectSend(args, outcome)
  \/ \E c \in Contents : ConnectRecv(c)
  \/ \E c \in Contents : ClientNext(c)
  \/ Drop

Spec == Init /\ [][Next]_vars

\* The executor polls a task that is runnable: a pending receive that has
\* been woken is resumed.  Nothing obliges the peer to send or the caller
\* to start an operation.
Resume ==
  \E c \in Contents : NewRecv(c) \/ GetDataPackageRecv(c) \/ ConnectRecv(c) \/ ClientNext(c)

FairSpec == Spec /\ WF_vars(Resume)

(***************************************************************************)
(* The functions of the message model, each applied to one argument: the   *)
(* client stays as it is at its start.                                     *)
(***************************************************************************)
\* The three accessors of one ItemsHandlingFlags value.
ItemsHandlingFlagsRead ==
  /\ call.fn = "ItemsHandlingFlags"
  /\ result = NoResult
  /\ result' = [fn |-> call.fn,
                can_receive_items |-> can_receive_items(call.arg),
                has_local_items |-> has_local_items(call.arg),
                receive_starting_inventory |-> receive_starting_inventory(call.arg)]
  /\ UNCHANGED <<call, pc, task, waker, inbox, nframes, nvalues, peerClosed,
                 message_buffer, room_info, connected, sent, flushed, ret>>
  /\ UNCHANGED <<last, received, yielded, first_item, new_ret, auth_reply,
                 connect_calls, frame_log, auth_log, after_close, submitted>>

\* Three ItemsHandlingFlags values combined with |, and the flags of
\* examples/basic.rs.
ItemsHandlingFlagsBitOr ==
  /\ call.fn = "bitor"
  /\ result = NoResult
  /\ LET a == call.arg[1]
         b == call.arg[2]
         c == call.arg[3]
     IN result' = [fn |-> call.fn,
                   ab |-> bitor(a, b), ba |-> bitor(b, a), aa |-> bitor(a, a),
                   ab_c |-> bitor(bitor(a, b), c), a_bc |-> bitor(a, bitor(b, c)),
                   basic |-> BasicFlags,
                   basic_can_receive_items |-> can_receive_items(BasicFlags),
                   basic_has_local_items |-> has_local_items(BasicFlags),
                   basic_receive_starting_inventory |->
                     receive_starting_inventory(BasicFlags)]
  /\ UNCHANGED <<call, pc, task, waker, inbox, nframes, nvalues, peerClosed,
                 message_buffer, room_info, connected, sent, flushed, ret>>
  /\ UNCHANGED <<last, received, yielded, first_item, new_ret, auth_reply,
                 connect_calls, frame_log, auth_log, after_close, submitted>>

\* One JSON value decoded into each of the two families.
FromValueBoth ==
  /\ call.fn = "from_value"
  /\ result = NoResult
  /\ result' = [fn |-> call.fn,
                anon |-> from_value("anon", 1, call.arg),
                full |-> from_value("full", 1, call.arg)]
  /\ UNCHANGED <<call, pc, task, waker, inbox, nframes, nvalues, peerClosed,
                 message_buffer, room_info, connected, sent, flushed, ret>>
  /\ UNCHANGED <<last, received, yielded, first_item, new_ret, auth_reply,
                 connect_calls, frame_log, auth_log, after_close, submitted>>

\* AnonymousClient::new up to connect_async: the address it connects to.
NewEndpoint ==
  /\ call.fn = "new"
  /\ result = NoResult
  /\ result' = [fn |-> call.fn] @@ Endpoint(call.arg)
  /\ UNCHANGED <<call, pc, task, waker, inbox, nframes, nvalues, peerClosed,
                 message_buffer, room_info, connected, sent, flushed, ret>>
  /\ UNCHANGED <<last, received, yielded, first_item, new_ret, auth_reply,
                 connect_calls, frame_log, auth_log, after_close, submitted>>

\* A value of the message model is serialized and read back.
RoundTrip ==
  /\ call.fn = "to_value"
  /\ result = NoResult
  /\ result' = [fn |-> call.fn] @@ ThereAndBack(call.arg)
  /\ UNCHANGED <<call, pc, task, waker, inbox, nframes, nvalues, peerClosed,
                 message_buffer, room_info, connected, sent, flushed, ret>>
  /\ UNCHANGED <<last, received, yielded, first_item, new_ret, auth_reply,
                 connect_calls, frame_log, auth_log, after_close, submitted>>

\* The u8 values tried as operands of |.
Operands == (0..MaxOperand) \cup {U8Max - x : x \in 0..MaxOperand}

PureInit ==
  /\ ClientInit
  /\ result = NoResult
  /\ \/ call \in [fn : {"ItemsHandlingFlags"}, arg : 0..U8Max]
     \/ call \in [fn : {"bitor"}, arg : Operands \X Operands \X Operands]
     \/ call \in [fn : {"from_value"}, arg : Contents]
     \/ call \in [fn : {"new"}, arg : Strings(MaxUrlLen)]
     \/ call \in [fn : {"to_value"}, arg : NetworkVersions]
     \/ call \in [fn : {"to_value"}, arg : DataStorageOperations]
     \/ call \in [fn : {"to_value"}, arg : Connects]
     \/ call \in [fn : {"to_value"},
                   arg : [ty : {"ItemsHandlingFlags"}, bits : 0..U8Max]]

PureNext ==
  \/ ItemsHandlingFlagsRead
  \/ ItemsHandlingFlagsBitOr
  \/ FromValueBoth
  \/ NewEndpoint
  \/ RoundTrip

PureSpec == PureInit /\ [][PureNext]_vars

(***************************************************************************)
(* The claims.                                                             *)
(***************************************************************************)
\* What decoding value v, which holds c, into family fam must give.
Decoded(fam, v, c) ==
  IF c.cmd \in Tags(fam)
    THEN Item("Ok", [cmd |-> c.cmd, seq |-> v,
                     data |-> IF c.cmd = "RoomUpdate" THEN <<>> ELSE c.data], "")
  ELSE Item("ParseError", NoMsg, "")

\* C1: the N calls of poll_next that start with the one reading a text frame
\* of N >= 1 elements yield these N elements, decoded, in their order, none
\* of the calls after the first polls the websocket, and the websocket is
\* polled only when message_buffer is empty.
C1_FrameYieldedInOrder ==
  /\ Len(frame_log.outs) <= Len(frame_log.elems)
  /\ ~frame_log.repolled
  /\ \A i \in 1..Len(frame_log.outs) :
       /\ frame_log.outs[i].src = frame_log.elems[i]
       /\ frame_log.outs[i].kind \in {"Ok", "ParseError"}
  /\ last.r.polled => last.before = <<>>
  /\ last.r.src # NoValue =>
       last.r.ready /\ last.r.item = Decoded(last.fam, last.r.src, last.c)

\* A frame of two elements has been read and both have been yielded.
C1_Witness == Len(frame_log.elems) = 2 /\ Len(frame_log.outs) = 2

\* C2: the values yielded so far are a prefix of the values of the text
\* frames read so far, in the order of arrival.
C2_YieldedPrefixOfReceived ==
  /\ Len(yielded) <= Len(received)
  /\ \A i \in 1..Len(yielded) : yielded[i] = received[i]

\* Three values have been yielded, from more than one frame.
C2_Witness == Len(yielded) = 3 /\ nframes >= 2 /\ Len(received) >= 3

\* C3: the values left in the AnonymousClient's buffer when connect consumed
\* Connected are what the Client's first calls yield, in order and without
\* polling the websocket, and the Client holds the RoomInfo new received.
C3_BufferCarriedToClient ==
  /\ Len(auth_log.outs) <= Len(auth_log.buffered)
  /\ \A i \in 1..Len(auth_log.outs) :
       /\ auth_log.outs[i].src = auth_log.buffered[i]
       /\ ~auth_log.outs[i].polled
  /\ pc \in {"client", "next_recv"} =>
       new_ret.ok /\ room_info = new_ret.msg /\ room_info = first_item.msg

\* A value was buffered when Connected was consumed, and the Client has
\* yielded it.
C3_Witness ==
  /\ Len(auth_log.buffered) >= 1
  /\ Len(auth_log.outs) = Len(auth_log.buffered)
  /\ pc = "client"

\* C4: once connect has been called on an AnonymousClient no operation runs
\* on that session again, whatever connect returned, and connect is called
\* at most once: at most one Client comes of it.
C4_ConnectConsumesSession ==
  /\ connect_calls <= 1
  /\ connect_calls > 0 =>
       pc \in {"auth_recv", "client", "next_recv", "consumed", "dropped"}

\* connect has consumed a reply and failed.
C4_Witness == connect_calls = 1 /\ pc = "consumed" /\ auth_reply.kind = "Ok"

\* C5: new returns a session if and only if the first item of the stream is
\* a decoded RoomInfo, which the session then holds; otherwise it fails and
\* there is no session.
C5_NewSucceedsIffRoomInfoFirst ==
  /\ (new_ret = NoRet) <=> (first_item = NoItem)
  /\ (new_ret # NoRet) =>
       /\ new_ret.ok <=> (first_item.kind = "Ok" /\ first_item.msg.cmd = "RoomInfo")
       /\ new_ret.ok =>
            /\ new_ret.msg = first_item.msg
            /\ ~Released => room_info = first_item.msg
       /\ ~new_ret.ok => pc = "failed" /\ room_info = NoMsg

\* new has returned a session.
C5_Witness == pc = "anon" /\ new_ret.ok /\ first_item.msg.cmd = "RoomInfo"

\* C6: when the reply connect consumes is ConnectionRefused, connect fails
\* with an error that names the refusal and carries its reasons, all of them
\* and in their order, and there is no Client.
C6_RefusedCarriesReasons ==
  (auth_reply.kind = "Ok" /\ auth_reply.msg.cmd = "ConnectionRefused") =>
    /\ pc = "consumed"
    /\ connected = NoMsg
    /\ ret.op = "connect"
    /\ ~ret.ok
    /\ ret.err = "expected Connected message, got ConnectionRefused"
    /\ ret.detail = auth_reply.msg.data

\* connect has consumed a ConnectionRefused that gives two reasons.
C6_Witness ==
  /\ auth_reply.msg.cmd = "ConnectionRefused"
  /\ Len(auth_reply.msg.data) = 2
  /\ ret.op = "connect"

\* C7: a call of poll_next that reads a Ping or a Pong frame yields nothing
\* (no message, no error, no end of the stream), leaves message_buffer as it
\* was, and the operation that awaits an item goes on awaiting.
C7_PingPongYieldNothing ==
  last.r.frame.kind \in {"Ping", "Pong"} =>
    /\ ~last.r.ready
    /\ last.r.item = NoItem
    /\ last.r.buf = last.before
    /\ message_buffer = last.before
    /\ Receiving \/ pc = "dropped"

\* A call has read a Ping frame.
C7_Witness == last.r.frame.kind = "Ping" /\ last.r.polled

\* The values that can arrive in one run.
AllValues == 1..(MaxFrames * MaxElems)

\* A call of poll_next has consumed a Ping, a Pong or an empty array, its
\* operation is still pending, and the websocket holds a text frame whose
\* first element is v.
SkippedThenText(v) ==
  /\ Receiving
  /\ ~last.r.ready
  /\ last.r.frame.kind \in {"Ping", "Pong", "Text"}
  /\ inbox.kind = "Text"
  /\ inbox.array
  /\ inbox.elems # <<>>
  /\ Head(inbox.elems) = v

\* C8: after a Ping, a Pong or an empty array the pending call goes on to
\* the next frame: once a text frame with a first element has arrived, that
\* element is yielded (unless the caller drops the pending operation).
C8_PendingResumesOnNextFrame ==
  \A v \in AllValues :
    SkippedThenText(v) ~> ((\E i \in 1..Len(yielded) : yielded[i] = v) \/ pc = "dropped")

\* C9: the call that reads a Close frame yields the end of the stream, and
\* after it no call polls the websocket or yields a message or an error.
C9_CloseEndsSequence ==
  /\ last.r.frame.kind = "Close" => last.r.ready /\ last.r.item = ItemNone
  /\ after_close \in {"", "exhausted"}

\* C10: a call that reads a binary or a raw frame yields the error
\* UnexpectedMessageType that names the frame's kind, "binary" or "frame".
C10_OtherFrameNamed ==
  last.r.frame.kind \in {"Binary", "Frame"} =>
    /\ last.r.ready
    /\ last.r.item.kind = "UnexpectedMessageType"
    /\ last.r.item.msg = NoMsg
    /\ last.r.item.name = (IF last.r.frame.kind = "Binary" THEN "binary" ELSE "frame")

\* A call has read a raw frame.
C10_Witness == last.r.frame.kind = "Frame" /\ last.r.ready

\* The operation that last returned is the one that consumed the item of the
\* last call of poll_next: ret is what it made of last.r.item.
RetOfLast == last.r.ready /\ ret.err # "send failed"

\* C11: a call of poll_next that reads a Close frame or the end of the
\* transport yields None.  When new, get_data_package or connect awaited the
\* item, the operation fails with "stream unexpectedly ended" (and no
\* operation fails so for another reason); when the consumer of a Client
\* awaited it, it gets the end of the sequence, None, and no error.
C11_EndOfStreamFatalInHandshakeOnly ==
  /\ last.r.frame.kind \in {"Close", "End"} => last.r.ready /\ last.r.item = ItemNone
  /\ RetOfLast =>
       /\ (last.r.item = ItemNone /\ last.fam = "anon") =>
            /\ ret.op \in {"new", "get_data_package", "connect"}
            /\ ~ret.ok
            /\ ret.err = "stream unexpectedly ended"
            /\ connected = NoMsg
       /\ (last.r.item = ItemNone /\ last.fam = "full") =>
            /\ ret.op = "next"
            /\ ret.err = "None"
            /\ ret.msg = NoMsg
            /\ pc \in {"client", "dropped"}
       /\ ret.err = "stream unexpectedly ended" =>
            last.r.item = ItemNone /\ last.fam = "anon"

\* A Client has read a Close frame and its consumer has been given the end
\* of the sequence.
C11_Witness ==
  /\ last.fam = "full"
  /\ last.r.frame.kind = "Close"
  /\ ret.op = "next"
  /\ ret.err = "None"

\* C12: the frames handed to the websocket sink are, one for one and in the
\* same order, the messages handed to start_send: each is a text frame whose
\* JSON array holds that one message and nothing else, so no two messages
\* share a frame, and a GetDataPackage sent before connect precedes the
\* Connect frame.
C12_OneFramePerMessageInOrder ==
  /\ Len(sent) = Len(submitted)
  /\ \A i \in 1..Len(sent) :
       /\ sent[i].kind = "Text"
       /\ sent[i].array
       /\ sent[i].elems = <<submitted[i]>>
  /\ \A i \in 1..Len(submitted) :
       submitted[i].cmd = "Connect" => i = Len(submitted)
  /\ flushed <= Len(sent)

\* A GetDataPackage and then a Connect have been sent.
C12_Witness ==
  /\ Len(sent) = 2
  /\ submitted[1].cmd = "GetDataPackage"
  /\ submitted[2].cmd = "Connect"
  /\ flushed = 2

\* C13: get_data_package succeeds only when the reply it consumes is a
\* DataPackage, every other reply is an error, and when the reply is the
\* server's InvalidPacket report the error carries the report received.
C13_ReplyMismatchNamed ==
  (RetOfLast /\ ret.op = "get_data_package") =>
    /\ ret.ok <=> (last.r.item.kind = "Ok" /\ last.r.item.msg.cmd = "DataPackage")
    /\ ret.ok => ret.msg = last.r.item.msg
    /\ (last.r.item.kind = "Ok" /\ last.r.item.msg.cmd = "InvalidPacket") =>
         /\ ~ret.ok
         /\ \E i \in 1..Len(ret.detail) : ret.detail[i] \in {"InvalidPacket", "cmd"}

\* C14: when the reply connect consumes is a decoded message of the anonymous
\* family other than Connected and ConnectionRefused (RoomInfo, DataPackage,
\* InvalidPacket), connect fails, there is no Client, and the error carries
\* the reply: the fields of the InvalidPacket report, or the variant and the
\* fields of the other message.
C14_UnexpectedReplyCarried ==
  (auth_reply.kind = "Ok"
     /\ auth_reply.msg.cmd \in {"RoomInfo", "DataPackage", "InvalidPacket"}) =>
    /\ pc = "consumed"
    /\ connected = NoMsg
    /\ ret.op = "connect"
    /\ ~ret.ok
    /\ ret.msg = NoMsg
    /\ IF auth_reply.msg.cmd = "InvalidPacket"
         THEN /\ ret.err = "expected Connected message, got InvalidPacket"
              /\ ret.detail = auth_reply.msg.data
         ELSE /\ ret.err = "expected Connected message, got"
              /\ ret.detail = <<auth_reply.msg.cmd>> \o auth_reply.msg.data

\* connect has consumed a DataPackage as its reply.
C14_Witness ==
  /\ auth_reply.kind = "Ok"
  /\ auth_reply.msg.cmd = "DataPackage"
  /\ ret.op = "connect"
  /\ pc = "consumed"

C16_FlagsGatedByCanReceive ==
  result.fn = "ItemsHandlingFlags" =>
    /\ result.can_receive_items <=> (call.arg % 2 = 1)
    /\ ~result.can_receive_items =>
         ~result.has_local_items /\ ~result.receive_starting_inventory
    /\ result.can_receive_items =>
         /\ result.has_local_items <=> ((call.arg \div 2) % 2 = 1)
         /\ result.receive_starting_inventory <=> ((call.arg \div 4) % 2 = 1)

\* The accessors have been read on 0b110: both bits set, can_receive_items
\* not.
C16_Witness ==
  /\ result.fn = "ItemsHandlingFlags"
  /\ call.arg = 6
  /\ ~result.has_local_items

\* C17: every value that decodes as an AnonymousServerMessage decodes as a
\* ServerMessage too, to the same variant, and ServerMessage has a variant
\* AnonymousServerMessage has not.
C17_AnonymousFamilySubset ==
  /\ ServerMessage \ AnonymousServerMessage # {}
  /\ result.fn = "from_value" =>
       (result.anon.kind = "Ok" => result.full = result.anon)

\* C19: new cuts the endpoint at its last colon into host and port (the port
\* holds no colon); an endpoint without a colon is the host, and the port is
\* "38281"; the address connected to is "ws://" host ":" port.
C19_EndpointSplitAtLastColon ==
  result.fn = "new" =>
    /\ IF \E i \in 1..Len(call.arg) : call.arg[i] = ":"
         THEN /\ call.arg = result.host \o <<":">> \o result.port
              /\ \A i \in 1..Len(result.port) : result.port[i] # ":"
         ELSE /\ result.host = call.arg
              /\ result.port = <<"3", "8", "2", "8", "1">>
    /\ result.target = <<"w", "s", ":", "/", "/">> \o result.host \o <<":">> \o result.port

\* An endpoint with two colons has been resolved.
C19_Witness ==
  /\ result.fn = "new"
  /\ call.arg = <<"h", ":", "h", ":">>
  /\ result.host = <<"h", ":", "h">>

\* C18: every value of the message model serializes, and the JSON read back
\* is the value, field for field; the JSON of a version holds major, minor
\* and build and the entry class = "Version", by itself and inside Connect.
C18_RoundTrip ==
  result.fn = "to_value" =>
    /\ result.wire.ok
    /\ result.back.ok
    /\ result.back.out = call.arg
    /\ call.arg.ty = "NetworkVersion" =>
         result.wire.out = [major |-> call.arg.major, minor |-> call.arg.minor,
                            build |-> call.arg.build, class |-> "Version"]
    /\ call.arg.ty = "Connect" => result.wire.out.version.class = "Version"

\* A session exists: an AnonymousClient, or the Client made of it.
SessionExists == pc \in {"anon", "gdp_recv", "auth_recv", "client", "next_recv"}

\* C20: as long as a session exists its room_info is the RoomInfo that new
\* received as the first item of the stream, and a Client's connected is
\* the Connected that connect consumed as its reply: no get_data_package,
\* no connect and no message yielded later, a RoomUpdate or a second
\* RoomInfo included, changes them.
C20_SnapshotsImmutable ==
  /\ SessionExists =>
       /\ first_item.kind = "Ok"
       /\ first_item.msg.cmd = "RoomInfo"
       /\ room_info = first_item.msg
  /\ pc \in {"client", "next_recv"} =>
       /\ auth_reply.kind = "Ok"
       /\ auth_reply.msg.cmd = "Connected"
       /\ connected = auth_reply.msg
  /\ pc \in {"anon", "gdp_recv", "auth_recv"} => connected = NoMsg

\* A Client has yielded a RoomUpdate.
C20_Witness ==
  /\ pc = "client"
  /\ ret.op = "next"
  /\ ret.ok
  /\ ret.msg.cmd = "RoomUpdate"
  /\ room_info.data # ret.msg.data

\* C21: a value that holds an InvalidPacket report is yielded as a decoded
\* message, the InvalidPacket with the report's fields, by the stream of an
\* AnonymousClient and by the stream of a Client alike: never as an error,
\* never as the end of the stream, and the call that decodes it is ready.
C21_InvalidPacketIsMessage ==
  (last.r.src # NoValue /\ last.c.cmd = "InvalidPacket") =>
    /\ last.fam \in {"anon", "full"}
    /\ last.r.ready
    /\ last.r.item.kind = "Ok"
    /\ last.r.item.name = ""
    /\ last.r.item.msg = [cmd |-> "InvalidPacket", data |-> last.c.data,
                           seq |-> last.r.src]

\* The stream of a Client has decoded an InvalidPacket report.
C21_Witness ==
  /\ last.fam = "full"
  /\ last.c.cmd = "InvalidPacket"
  /\ last.r.item.kind = "Ok"
  /\ ret.op = "next"
  /\ ret.ok

\* The values of a sequence.
Range(q) == {q[i] : i \in 1..Len(q)}

\* C22: a value that does not decode into the family of the stream makes
\* the call that takes it yield ParseError, and the value is gone: it is
\* not in message_buffer after the call.  The values that came after it in
\* its frame are in message_buffer, in their order, whether it was the first
\* of its frame or came out of message_buffer, and the calls that follow
\* yield them.
C22_UndecodableReportedAndRemoved ==
  /\ last # NoLast => message_buffer = last.r.buf
  /\ (last.r.src # NoValue /\ last.c.cmd \notin Tags(last.fam)) =>
       /\ last.r.ready
       /\ last.r.item = Item("ParseError", NoMsg, "")
       /\ last.r.src \notin Range(last.r.buf)
       /\ IF last.r.polled
            THEN /\ last.before = <<>>
                 /\ Head(last.r.frame.elems) = last.r.src
                 /\ last.r.buf = Tail(last.r.frame.elems)
            ELSE /\ Head(last.before) = last.r.src
                 /\ last.r.buf = Tail(last.before)
  /\ \A i \in 1..Len(frame_log.outs) :
       frame_log.outs[i].kind = "ParseError" =>
         /\ frame_log.outs[i].src = frame_log.elems[i]
         /\ \A j \in (i + 1)..Len(frame_log.outs) :
              /\ frame_log.outs[j].src = frame_log.elems[j]
              /\ ~frame_log.outs[j].polled

\* The first value of a frame of two did not decode, and the call after it
\* has yielded the second, decoded.
C22_Witness ==
  /\ Len(frame_log.elems) = 2
  /\ Len(frame_log.outs) = 2
  /\ frame_log.outs[1].kind = "ParseError"
  /\ frame_log.outs[1].polled
  /\ frame_log.outs[2].kind = "Ok"

\* The call l of poll_next read a text frame that is no JSON array.
ReadMalformed(l) == l.r.polled /\ l.r.frame.kind = "Text" /\ ~l.r.frame.array

\* C23: the call that reads a text frame that is no JSON array yields one
\* ParseError; message_buffer, empty before the call, is empty after it and
\* no value is counted as received; the stream has not ended, and the call
\* of poll_next that comes next polls the websocket again.
C23_MalformedFrameIsParseError ==
  [][ /\ ReadMalformed(last') =>
           /\ last'.r.ready
           /\ last'.r.item = Item("ParseError", NoMsg, "")
           /\ last'.r.src = NoValue
           /\ last'.before = <<>>
           /\ last'.r.buf = <<>>
           /\ message_buffer' = <<>>
           /\ Len(received') = Len(yielded')
      /\ (ReadMalformed(last) /\ last' # last) =>
           /\ received' = received \o NewElems(last'.r)
           /\ last'.r.polled
           /\ last'.before = <<>> ]_vars

\* get_data_package has read a text frame that is no JSON array and has
\* returned the ParseError; the session is still there.
C23_Witness ==
  /\ ReadMalformed(last)
  /\ pc = "anon"
  /\ ret.op = "get_data_package"
  /\ ret.err = "ParseError"

\* C24: an error of the websocket is met only by a call that found
\* message_buffer empty; that call yields it as a WebsocketError, which is
\* neither a ParseError nor the end of the stream, and leaves message_buffer
\* empty.  A call that finds values in message_buffer does not poll the
\* websocket and yields no WebsocketError, whatever the websocket holds:
\* none of the calls that yield the values of a frame yields one.
C24_TransportErrorIsWebsocketError ==
  /\ (last # NoLast /\ last.r.frame.kind = "Error") =>
       /\ last.r.polled
       /\ last.r.ready
       /\ last.r.item = Item("WebsocketError", NoMsg, "")
       /\ last.r.item # ItemNone
       /\ last.before = <<>>
       /\ last.r.buf = <<>>
       /\ message_buffer = <<>>
  /\ (last # NoLast /\ last.r.item.kind = "WebsocketError") =>
       last.r.frame.kind = "Error"
  /\ (last # NoLast /\ last.before # <<>>) =>
       /\ ~last.r.polled
       /\ last.r.frame = NoFrame
       /\ last.r.item.kind # "WebsocketError"
  /\ \A i \in 1..Len(frame_log.outs) :
       frame_log.outs[i].kind # "WebsocketError"

\* connect met the error of the websocket after the two values of the first
\* frame had been yielded, the second of them from message_buffer.
C24_Witness ==
  /\ last.r.frame.kind = "Error"
  /\ Len(yielded) = 2
  /\ ret.op = "connect"
  /\ ret.err = "WebsocketError"

\* C25: connect hands at most one message to the sink, a Connect, and
\* consumes nothing while it sends; it goes on to read only if the message
\* was sent and flushed, and returns the error otherwise.  While it reads
\* it sends nothing; the first item the stream yields is its reply, with
\* which it returns: it reads no second item.
C25_ConnectSendsOnceReadsOnce ==
  [][ /\ connect_calls' # connect_calls =>
           /\ connect_calls = 0
           /\ connect_calls' = 1
           /\ pc = "anon"
           /\ \/ submitted' = submitted
              \/ \E m \in {ConnectMsg(args) : args \in ConnectArgs} :
                   /\ submitted' = Append(submitted, m)
                   /\ sent' = Append(sent, start_send(m))
           /\ UNCHANGED <<inbox, message_buffer, last, received, yielded,
                          auth_reply, room_info>>
           /\ (pc' = "auth_recv") <=>
                (Len(sent') = Len(sent) + 1 /\ flushed' = Len(sent'))
           /\ pc' # "auth_recv" =>
                /\ pc' = "consumed"
                /\ ret' = Ret("connect", FALSE, NoMsg, "send failed", <<>>)
      /\ pc = "auth_recv" =>
           /\ UNCHANGED <<sent, submitted, flushed, connect_calls>>
           /\ auth_reply = NoItem
           /\ flushed = Len(sent)
           /\ submitted[Len(submitted)].cmd = "Connect"
           /\ \A i \in 1..(Len(submitted) - 1) : submitted[i].cmd # "Connect"
           /\ Len(yielded') <= Len(yielded) + 1
           /\ (pc' = "auth_recv") <=> (auth_reply' = NoItem /\ pc' # "dropped")
           /\ pc' \in {"client", "consumed"} =>
                /\ last'.r.ready
                /\ auth_reply' = last'.r.item
                /\ ret'.op = "connect"
      /\ pc # "auth_recv" => auth_reply' = auth_reply ]_vars

\* connect has sent its one Connect, has read its one reply and has
\* returned the Client, after get_data_package had sent and read before it.
C25_Witness ==
  /\ connect_calls = 1
  /\ pc = "client"
  /\ auth_reply.kind = "Ok"
  /\ Len(sent) = 2
  /\ flushed = 2
  /\ Len(yielded) = 3

\* C26: every Connect handed to the sink, and the frame made of it, carries
\* the version 0.4.5 and slot_data = true, whatever the caller passed to
\* connect and whatever version the RoomInfo of the session names.
C26_ConnectCarriesSupportedVersion ==
  \A i \in 1..Len(submitted) :
    submitted[i].cmd = "Connect" =>
      /\ submitted[i].version = [major |-> 0, minor |-> 4, build |-> 5]
      /\ submitted[i].slot_data = TRUE
      /\ i <= Len(sent)
      /\ sent[i].elems[1].version = [major |-> 0, minor |-> 4, build |-> 5]
      /\ sent[i].elems[1].slot_data = TRUE

\* A Connect has been sent to a server whose RoomInfo names version 0.5.0,
\* by a caller that takes no items.
C26_Witness ==
  /\ submitted # <<>>
  /\ submitted[Len(submitted)].cmd = "Connect"
  /\ submitted[Len(submitted)].items_handling = 0
  /\ room_info.data[1] = "0.5.0"

\* C27: new succeeds on every RoomInfo, whatever version it names, and
\* keeps it as it came; connect, once its request is sent, succeeds exactly
\* when the reply it consumed is a Connected, whatever version the room
\* names: no error of either names the version.
C27_NoVersionCheck ==
  /\ (first_item.kind = "Ok" /\ first_item.msg.cmd = "RoomInfo") =>
       /\ new_ret.ok
       /\ new_ret.msg = first_item.msg
       /\ SessionExists => room_info = first_item.msg
  /\ auth_reply # NoItem =>
       /\ (auth_reply.kind = "Ok" /\ auth_reply.msg.cmd = "Connected") <=>
            pc \in {"client", "next_recv", "dropped"}
       /\ ret.op = "connect" =>
            /\ ret.ok <=> (auth_reply.kind = "Ok" /\ auth_reply.msg.cmd = "Connected")
            /\ ret.ok => ret.msg = auth_reply.msg
            /\ ~ret.ok =>
                 ret.err \in {"stream unexpectedly ended", "ParseError",
                              "WebsocketError", "UnexpectedMessageType",
                              "expected Connected message, got",
                              "expected Connected message, got InvalidPacket",
                              "expected Connected message, got ConnectionRefused"}
  /\ new_ret # NoRet /\ ~new_ret.ok =>
       new_ret.err \in {"stream unexpectedly ended", "ParseError",
                        "WebsocketError", "UnexpectedMessageType",
                        "expected RoomInfo message"}

\* connect has returned the Client of a room whose RoomInfo names 0.5.0.
C27_Witness ==
  /\ first_item.msg.cmd = "RoomInfo"
  /\ first_item.msg.data[1] = "0.5.0"
  /\ new_ret.ok
  /\ ret.op = "connect"
  /\ ret.ok
  /\ pc = "client"

\* C28: | on ItemsHandlingFlags is the bitwise OR of the two u8: a bit of
\* a | b is set if and only if it is set in a or in b; | is commutative,
\* idempotent and associative; and CAN_RECEIVE_ITEMS | HAS_LOCAL_ITEMS |
\* REQUEST_STARTING_INVENTORY is 0b111, for which the three accessors are
\* true.
C28_BitOrIsBitwiseOr ==
  result.fn = "bitor" =>
    /\ result.ab \in 0..255
    /\ \A k \in 0..7 :
         ((result.ab \div (2 ^ k)) % 2 = 1) <=>
           \/ (call.arg[1] \div (2 ^ k)) % 2 = 1
           \/ (call.arg[2] \div (2 ^ k)) % 2 = 1
    /\ result.ab = result.ba
    /\ result.aa = call.arg[1]
    /\ result.ab_c = result.a_bc
    /\ result.basic = 7
    /\ result.basic_can_receive_items
    /\ result.basic_has_local_items
    /\ result.basic_receive_starting_inventory

\* 0b011 | 0b101 | 0b110 has been computed: the operands share bits.
C28_Witness ==
  /\ result.fn = "bitor"
  /\ call.arg = <<3, 5, 6>>
  /\ result.ab = 7
  /\ result.ab_c = 7

\* C29: the reply of get_data_package and of connect is the item the
\* stream yields next, the value that follows the values yielded so far in
\* the order received: if message_buffer holds values when the reply is
\* read, the reply is the first of them, the websocket is not polled, and
\* what the operation returns is decided by that value.
C29_ReplyIsNextItem ==
  (RetOfLast /\ ret.op \in {"get_data_package", "connect"}) =>
    /\ last.r.src # NoValue =>
         /\ yielded # <<>>
         /\ last.r.src = yielded[Len(yielded)]
         /\ last.r.src = received[Len(yielded)]
    /\ ret.op = "connect" => auth_reply = last.r.item
    /\ last.before # <<>> =>
         /\ ~last.r.polled
         /\ last.r.frame = NoFrame
         /\ last.r.src = Head(last.before)
         /\ last.r.buf = Tail(last.before)
         /\ last.r.item = Decoded(last.fam, last.r.src, last.c)
         /\ ret.ok <=>
              /\ last.r.item.kind = "Ok"
              /\ last.r.item.msg.cmd =
                   (IF ret.op = "connect" THEN "Connected" ELSE "DataPackage")
         /\ ret.ok => ret.msg = last.r.item.msg

\* Only the first frame has arrived, RoomInfo and a DataPackage in it:
\* get_data_package has returned the DataPackage, which was in
\* message_buffer before the request was sent.
C29_Witness ==
  /\ nframes = 1
  /\ ret.op = "get_data_package"
  /\ ret.ok
  /\ last.before # <<>>
  /\ ~last.r.polled
  /\ Len(sent) = 1

\* C30: when get_data_package has returned, with the DataPackage or with
\* any error, the AnonymousClient is there as before: it holds the RoomInfo
\* new stored, message_buffer holds, in the order received, the values
\* received and not yet yielded, the reply not among them, and
\* get_data_package and connect can be called on it.  No value is yielded
\* twice.
C30_GetDataPackageKeepsSession ==
  /\ ret.op = "get_data_package" =>
       /\ pc \in {"anon", "gdp_recv", "auth_recv", "dropped"}
       /\ connect_calls = 0 => pc \in {"anon", "gdp_recv", "dropped"}
       /\ room_info = new_ret.msg
       /\ room_info = first_item.msg
       /\ room_info.cmd = "RoomInfo"
  /\ (ret.op = "get_data_package" /\ pc = "anon") =>
       /\ task = "runnable"
       /\ received = yielded \o message_buffer
       /\ RetOfLast =>
            /\ message_buffer = last.r.buf
            /\ last.r.src \notin Range(message_buffer)
       /\ Len(sent) < MaxSent =>
            /\ ENABLED (\E outcome \in SendOutcomes : GetDataPackageSend(outcome))
            /\ ENABLED (\E args \in ConnectArgs, outcome \in SendOutcomes :
                          ConnectSend(args, outcome))
  /\ \A i, j \in 1..Len(yielded) : yielded[i] = yielded[j] => i = j

\* get_data_package has returned an error for a reply that is no
\* DataPackage, with a value still in message_buffer.
C30_Witness ==
  /\ ret.op = "get_data_package"
  /\ ret.err = "expected DataPackage message"
  /\ pc = "anon"
  /\ RetOfLast
  /\ message_buffer # <<>>

\* The messages of the full family only.
FullOnly == ServerMessage \ AnonymousServerMessage

\* The last call yielded a value that was in message_buffer when connect
\* consumed Connected, and the Client made it.
ClientYieldedCarried ==
  /\ ret.op = "next"
  /\ last.r.ready
  /\ Len(auth_log.outs) >= 1
  /\ last.r.src = auth_log.buffered[Len(auth_log.outs)]

\* C31: a value is decoded in the family of the session that consumes it.
\* A value the AnonymousClient received and left in message_buffer is
\* decoded by the Client in the full family: a PrintJSON that followed
\* Connected in one frame is yielded Ok.  A value of the full family only
\* that new, get_data_package or connect consumes yields a ParseError.
C31_DecodedInConsumersFamily ==
  /\ ClientYieldedCarried =>
       /\ ~last.r.polled
       /\ last.r.src <= auth_reply.msg.seq + MaxElems
       /\ last.c.cmd \in ServerMessage =>
            /\ last.r.item.kind = "Ok"
            /\ last.r.item.msg.cmd = last.c.cmd
       /\ last.c.cmd \notin ServerMessage => last.r.item.kind = "ParseError"
  /\ (ret.op = "next" /\ last.r.ready /\ last.r.src # NoValue) =>
       last.r.item = Decoded("full", last.r.src, last.c)
  /\ (ret.op \in {"new", "get_data_package", "connect"} /\ RetOfLast
        /\ last.r.src # NoValue) =>
       /\ last.r.item = Decoded("anon", last.r.src, last.c)
       /\ last.c.cmd \in FullOnly =>
            /\ last.r.item = Item("ParseError", NoMsg, "")
            /\ ~ret.ok
            /\ ret.err = "ParseError"

\* The frame that held Connected held a PrintJSON after it; the Client has
\* yielded the PrintJSON, decoded, from message_buffer.
C31_Witness ==
  /\ ClientYieldedCarried
  /\ pc = "client"
  /\ last.c.cmd = "PrintJSON"
  /\ last.r.item.kind = "Ok"
  /\ last.r.src = auth_reply.msg.seq + 1

=============================================================================
